---- MODULE Spec2Model ----
(***************************************************************************)
(* A model of package http (src/http.go): the generic Request dispatcher,  *)
(* its five per-method wrappers, the five recipe constructors and Pipe.    *)
(*                                                                         *)
(* One goroutine calls the package.  A call to Request runs without        *)
(* interruption up to Client.Do, where it waits for the transport; the     *)
(* transport's answer (a response, a failure, or the deadline) is an       *)
(* input of the model.  A nil pointer dereference is a Go run-time panic:  *)
(* the call does not return and the goroutine ends.                        *)
(*                                                                         *)
(* The receptacle is a flat struct of scalar fields, as in the tests       *)
(* (Greeting, City, Data).                                                 *)
(***************************************************************************)
EXTENDS Integers, Sequences, FiniteSets, TLC

VARIABLES
    TimeOut,    \* package variable TimeOut (seconds)
    Client,     \* package variable Client (the transport in use)
    out,        \* the caller's receptacle (*T)
    pc,         \* where the calling goroutine is
    inPipe,     \* TRUE while the top-level call is Pipe
    entry,      \* the exported function called and its arguments
    call,       \* the arguments Request itself received
    req,        \* the request handed to Client.Do
    elapsed,    \* seconds since the deadline of req was taken
    last,       \* what the last Request call saw and returned
    ret,        \* the error returned to the top-level caller
    queue,      \* Pipe: the recipes not yet invoked, with their positions
    invoked,    \* Pipe: positions of the recipes invoked so far, in order
    rets,       \* Pipe: the error each invoked recipe returned
    expect,     \* Pipe: initial receptacle + responses of successful stages
    calls,      \* Request calls made by the current top-level call
    open        \* response bodies the current top-level call got and did not close

vars == <<TimeOut, Client, out, pc, inPipe, entry, call, req, elapsed, last,
          ret, queue, invoked, rets, expect, calls, open>>

----------------------------------------------------------------------------
(* Bounds of the model *)

MaxVals == 2        \* longest value list of one key of an input multi-map
MaxRecipes == 2     \* longest recipe list given to Pipe
MaxElapsed == 1     \* seconds counted one by one before jumping to the deadline

(* Program constants *)

DefaultTimeOut == 60
StatusLow == 200
StatusHigh == 300

----------------------------------------------------------------------------
(* Value domains *)

Keys == {"a", "b"}
KeyOrder == <<"a", "b">>          \* sort.Strings order used by Values.Encode
Vals == {"x"}                     \* values of an input multi-map
Fields == {"id", "name"}
GoodVals == {"v"}                 \* JSON values of the field's own type
BadVal == "bad"                   \* a JSON value of another type
Absent == "absent"                \* the field is not named in the body
FieldVals == {"u"} \cup GoodVals
ZeroVal == "zero"                 \* the Go zero value of a field
Statuses == {199, 200, 299, 300}
TimeOuts == {0, 1, DefaultTimeOut}
Clients == {"DefaultClient", "mock"}

QueryMethods == {"GET", "DELETE"}
BodyMethods == {"POST", "PUT", "PATCH"}
Supported == QueryMethods \cup BodyMethods
Methods == Supported \cup {"HEAD"}

SeqsUpTo(S, n) == UNION {[1..k -> S] : k \in 0..n}

(* url.Values: a key maps to its list of values; a key that is not in   *)
(* the map has the empty list.  nil is the absent input.                *)
EmptyMap == [k \in Keys |-> <<>>]
NilIn == [nil |-> TRUE, m |-> EmptyMap]
Inputs == {NilIn} \cup
          {[nil |-> FALSE, m |-> f] : f \in [Keys -> SeqsUpTo(Vals, MaxVals)]}

(* A URL string: whether url.Parse accepts it, and its query parameters *)
(* in the order written.                                                *)
BadURL == [valid |-> FALSE, query |-> <<>>]
URLs == {BadURL,
         [valid |-> TRUE, query |-> <<>>],
         [valid |-> TRUE, query |-> << <<"b", "x">>, <<"a", "y">> >>]}

(* Errors *)
Err(kind, status) == [kind |-> kind, status |-> status]
NilErr == Err("nil", 0)

(* Response bodies *)
NoFields == [f \in Fields |-> Absent]
Bodies == {[kind |-> "object", fields |-> g] :
              g \in [Fields -> GoodVals \cup {BadVal, Absent}]}
          \cup {[kind |-> "malformed", fields |-> NoFields],
                [kind |-> "empty", fields |-> NoFields]}
EmptyBody == [kind |-> "empty", fields |-> NoFields]
(* A response whose body cannot be read to its end delivers no buffer. *)
Responses == {[status |-> s, body |-> b, readOk |-> TRUE] :
                 s \in Statuses, b \in Bodies}
             \cup {[status |-> s, body |-> EmptyBody, readOk |-> FALSE] :
                      s \in Statuses}
NoRes == [status |-> 0, body |-> [kind |-> "none", fields |-> NoFields],
          readOk |-> FALSE]

NoHeader == [set |-> FALSE, ctype |-> "", clen |-> <<>>]
NoBody == [nil |-> TRUE, pairs |-> <<>>]
NoReq == [built |-> FALSE, method |-> "", query |-> <<>>, body |-> NoBody,
          header |-> NoHeader, deadline |-> 0, client |-> ""]
NoCall == [made |-> FALSE, method |-> "", uri |-> BadURL, in |-> NilIn]
NoEntry == [api |-> "none", method |-> "", url |-> BadURL, in |-> NilIn]
NoLast == [done |-> FALSE, method |-> "", pre |-> [f \in Fields |-> ZeroVal],
           res |-> NoRes, sent |-> FALSE, err |-> NilErr]

----------------------------------------------------------------------------
(* Pure functions of the standard library, as Request uses them *)

(* url.Values.Encode: keys in sorted order, each key once per value, the *)
(* values of one key in their own order.  The result is the list of the  *)
(* key=value pairs of the encoded string.                                *)
PairsOf(k, vs) == [i \in 1..Len(vs) |-> <<k, vs[i]>>]

RECURSIVE EncodeFrom(_, _)
EncodeFrom(m, i) ==
    IF i > Len(KeyOrder) THEN <<>>
    ELSE PairsOf(KeyOrder[i], m[KeyOrder[i]]) \o EncodeFrom(m, i + 1)

Encode(m) == EncodeFrom(m, 1)

(* len(encoded): every key and value is one character here, so a pair is *)
(* "k=v" and pairs are joined by "&".                                    *)
EncodedLen(pairs) == IF Len(pairs) = 0 THEN 0 ELSE 4 * Len(pairs) - 1

(* strconv.Itoa of a length: its decimal digits. *)
RECURSIVE Itoa(_)
Itoa(n) == IF n < 10 THEN <<n>> ELSE Itoa(n \div 10) \o <<n % 10>>

(* req.URL.Query(): the URL's query parsed into a url.Values. *)
Query(raw) ==
    [k \in Keys |->
        LET s == SelectSeq(raw, LAMBDA p : p[1] = k)
        IN  [i \in 1..Len(s) |-> s[i][2]]]

(* The loop with q.Set in place of q.Add: a key of in keeps only its    *)
(* last value and loses the values the URL had for it.                  *)
SetAll(q, m) ==
    [k \in Keys |-> IF m[k] = <<>> THEN q[k] ELSE <<m[k][Len(m[k])]>>]

(* The loop of q.Add(k, value) over every key and every value of in. *)
AddAll(q, m) == [k \in Keys |-> q[k] \o m[k]]

(* The body argument of http.NewRequest: the nil interface, an interface *)
(* holding a nil *strings.Reader, or a reader over an encoded string.    *)
NilReader == [kind |-> "nil", pairs |-> <<>>]
TypedNilReader == [kind |-> "typednil", pairs |-> <<>>]
NewReader(pairs) == [kind |-> "reader", pairs |-> pairs]

(* http.NewRequest(method, uri, body): url.Parse comes first and returns *)
(* (nil, err) for a URL it rejects; a body that is not the nil interface *)
(* is then inspected, and v.Len() on a nil *strings.Reader dereferences  *)
(* nil.                                                                  *)
NewRequest(method, uri, body) ==
    IF ~uri.valid THEN [st |-> "err", body |-> NoBody]
    ELSE IF body.kind = "typednil" THEN [st |-> "panic", body |-> NoBody]
    ELSE IF body.kind = "nil" THEN [st |-> "ok", body |-> NoBody]
    ELSE [st |-> "ok", body |-> [nil |-> FALSE, pairs |-> body.pairs]]

(* The status check with its upper end included. *)
StatusOKInclusive(s) == StatusLow <= s /\ s <= StatusHigh

(* The status check of Request. *)
StatusOK(s) == StatusLow <= s /\ s < StatusHigh

(* A decoder that reports no error for a body it cannot decode. *)
UnmarshalLenient(buf, o) ==
    IF buf.kind # "object" THEN [err |-> NilErr, out |-> o]
    ELSE [err |-> NilErr,
          out |-> [f \in Fields |->
                      IF buf.fields[f] \in GoodVals THEN buf.fields[f]
                      ELSE o[f]]]

(* A decoder that replaces the whole value: fields the object does not  *)
(* name are reset to their zero value.                                  *)
UnmarshalReplace(buf, o) ==
    IF buf.kind # "object" THEN [err |-> Err("syntax", 0), out |-> o]
    ELSE [err |-> IF \E f \in Fields : buf.fields[f] = BadVal
                  THEN Err("type", 0) ELSE NilErr,
          out |-> [f \in Fields |->
                      IF buf.fields[f] \in GoodVals THEN buf.fields[f]
                      ELSE ZeroVal]]

(* json.Unmarshal(buf, out) into a struct: the whole input is validated  *)
(* first (a syntax error or an empty input changes nothing); then each   *)
(* field named in the object is set, a value of the wrong type is        *)
(* skipped and reported by the error after the other fields were set.    *)
Unmarshal(buf, o) ==
    IF buf.kind # "object" THEN [err |-> Err("syntax", 0), out |-> o]
    ELSE [err |-> IF \E f \in Fields : buf.fields[f] = BadVal
                  THEN Err("type", 0) ELSE NilErr,
          out |-> [f \in Fields |->
                      IF buf.fields[f] \in GoodVals THEN buf.fields[f]
                      ELSE o[f]]]

----------------------------------------------------------------------------
(* Request, up to Client.Do: the switch on method and the deadline *)

BuildPanic(line) ==
    [st |-> "panic", at |-> line, query |-> <<>>, body |-> NoBody,
     header |-> NoHeader, err |-> NilErr]

(* case "GET", "DELETE": err of NewRequest is not looked at *)
BuildQuery(method, uri, in) ==
    LET r == NewRequest(method, uri, NilReader)
    IN  IF r.st # "ok" /\ ~in.nil THEN BuildPanic(94)
        ELSE IF r.st # "ok" THEN BuildPanic(132)
        ELSE [st |-> "ok", at |-> 0,
              query |-> IF in.nil THEN uri.query
                        ELSE Encode(AddAll(Query(uri.query), in.m)),
              body |-> r.body, header |-> NoHeader, err |-> NilErr]

(* case "POST", "PUT", "PATCH" *)
BuildBody(method, uri, in) ==
    LET encoded == Encode(in.m)
        inreader == IF in.nil THEN TypedNilReader ELSE NewReader(encoded)
        inlength == Itoa(EncodedLen(encoded))
        r == NewRequest(method, uri, inreader)
    IN  IF r.st = "err"
        THEN [st |-> "err", at |-> 114, query |-> <<>>, body |-> NoBody,
              header |-> NoHeader, err |-> Err("url", 0)]
        ELSE IF r.st = "panic" THEN BuildPanic(112)
        ELSE [st |-> "ok", at |-> 0, query |-> uri.query, body |-> r.body,
              header |-> IF in.nil THEN NoHeader
                         ELSE [set |-> TRUE,
                               ctype |-> "application/x-www-form-urlencoded",
                               clen |-> inlength],
              err |-> NilErr]

(* The switch: a method of neither case leaves req nil, and              *)
(* req.WithContext dereferences it.                                      *)
Build(method, uri, in) ==
    IF method \in QueryMethods THEN BuildQuery(method, uri, in)
    ELSE IF method \in BodyMethods THEN BuildBody(method, uri, in)
    ELSE BuildPanic(132)

(* Client.Do returned an error that is dropped: the code goes on. *)
DoFailedSwallow(err, o) == [err |-> NilErr, out |-> o]

(* Request, after Client.Do returned an error: if err != nil return err *)
DoFailed(err, o) == [err |-> err, out |-> o]

(* The number of open response bodies after a response was handled:     *)
(* res.Body is read by io.ReadAll and no path calls res.Body.Close().   *)
BodyAfter(n) == n + 1

(* Request, after Client.Do returned a response *)
AfterDo(res, o) ==
    IF ~StatusOK(res.status) THEN [err |-> Err("status", res.status), out |-> o]
    ELSE IF ~res.readOk THEN [err |-> Err("read", 0), out |-> o]
    ELSE Unmarshal(res.body, o)

----------------------------------------------------------------------------
(* The wrappers: the arguments each passes to Request *)

Args(method, uri, in) == [made |-> TRUE, method |-> method, uri |-> uri, in |-> in]

(* Get as an earlier revision had it: the input is not passed on. *)
GetDropsInput(url, in) == Args("GET", url, NilIn)

Get(url, in) == Args("GET", url, in)
Post(url, in) == Args("POST", url, in)
Put(url, in) == Args("PUT", url, in)
Patch(url, in) == Args("PATCH", url, in)
Delete(url) == Args("DELETE", url, NilIn)

(* Recipes: the five constructors bind url and in; a hand-written        *)
(* ReqRecipe, as in the tests, builds its input from the receptacle.     *)
GetRecipe(url, in) == [ctor |-> "GetRecipe", url |-> url, in |-> in]
PostRecipe(url, in) == [ctor |-> "PostRecipe", url |-> url, in |-> in]
PutRecipe(url, in) == [ctor |-> "PutRecipe", url |-> url, in |-> in]
PatchRecipe(url, in) == [ctor |-> "PatchRecipe", url |-> url, in |-> in]
DeleteRecipe(url) == [ctor |-> "DeleteRecipe", url |-> url, in |-> NilIn]
ClosureRecipe(url) == [ctor |-> "closure", url |-> url, in |-> NilIn]

(* in.Set("id", city.Id): the input a hand-written recipe derives. *)
FromField(o) ==
    [nil |-> FALSE,
     m |-> [k \in Keys |-> IF k = "a"
                           THEN <<IF o["id"] = "u" THEN "x" ELSE "y">>
                           ELSE <<>>]]

(* Every recipe calling Get, whatever its constructor. *)
RecipeCallAllGet(r, o) == Get(r.url, r.in)

(* What invoking a recipe with the receptacle calls. *)
RecipeCall(r, o) ==
    CASE r.ctor = "GetRecipe" -> Get(r.url, r.in)
      [] r.ctor = "PostRecipe" -> Post(r.url, r.in)
      [] r.ctor = "PutRecipe" -> Put(r.url, r.in)
      [] r.ctor = "PatchRecipe" -> Patch(r.url, r.in)
      [] r.ctor = "DeleteRecipe" -> Delete(r.url)
      [] OTHER -> Get(r.url, FromField(o))

PlainURL == [valid |-> TRUE, query |-> <<>>]
OneIn(k, v) == [nil |-> FALSE, m |-> [j \in Keys |-> IF j = k THEN <<v>> ELSE <<>>]]

RecipeBook ==
    {GetRecipe(PlainURL, OneIn("a", "x")),
     PostRecipe(PlainURL, OneIn("a", "x")),
     PutRecipe(PlainURL, NilIn),
     PatchRecipe(BadURL, OneIn("b", "y")),
     DeleteRecipe(PlainURL),
     ClosureRecipe(PlainURL)}

(* Pipe going on after an error. *)
PipeCheckContinue(err) == [return |-> FALSE, err |-> NilErr]

(* Pipe stopping at an error but returning success. *)
PipeCheckSwallow(err) ==
    IF err # NilErr THEN [return |-> TRUE, err |-> NilErr]
    ELSE [return |-> FALSE, err |-> NilErr]

(* Pipe's test of a recipe's result: return it if it is an error. *)
PipeCheck(err) ==
    IF err # NilErr THEN [return |-> TRUE, err |-> err]
    ELSE [return |-> FALSE, err |-> NilErr]

(* The receptacle with the fields a response names set to its values. *)
Merged(o, fields) ==
    [f \in Fields |-> IF fields[f] = Absent THEN o[f] ELSE fields[f]]

----------------------------------------------------------------------------
(* State *)

Init ==
    /\ TimeOut = DefaultTimeOut
    /\ Client = "DefaultClient"
    /\ out = [f \in Fields |-> "u"]
    /\ pc = "idle"
    /\ inPipe = FALSE
    /\ entry = NoEntry
    /\ call = NoCall
    /\ req = NoReq
    /\ elapsed = 0
    /\ last = NoLast
    /\ ret = NilErr
    /\ queue = <<>>
    /\ invoked = <<>>
    /\ rets = <<>>
    /\ expect = [f \in Fields |-> "u"]
    /\ calls = 0
    /\ open = 0

Expired == elapsed >= req.deadline

(* A Request call ends with err, the receptacle being o: control goes    *)
(* back to the caller, which is Pipe's loop or the top-level caller.     *)
Return(method, err, o, res, sent) ==
    /\ out' = o
    /\ last' = [done |-> TRUE, method |-> method, pre |-> out,
                res |-> res, sent |-> sent, err |-> err]
    /\ elapsed' = 0
    /\ IF inPipe
       THEN /\ rets' = Append(rets, err)
            /\ expect' = IF err = NilErr THEN Merged(expect, res.body.fields)
                         ELSE expect
            /\ IF PipeCheck(err).return
               THEN pc' = "returned" /\ ret' = PipeCheck(err).err
               ELSE pc' = "loop" /\ ret' = ret
       ELSE /\ pc' = "returned"
            /\ ret' = err
            /\ expect' = o
            /\ UNCHANGED rets

(* dur := time.Second * TimeOut, read when the deadline is taken. *)
DurDefault == DefaultTimeOut

Dur == TimeOut

(* The receiver of Client.Do, read when the request is executed. *)
Transport == Client

(* A switch that takes the pairs out of the caller's map as it adds or  *)
(* encodes them.                                                        *)
InputDrained(method, uri, in) ==
    IF in.nil THEN in ELSE [in EXCEPT !.m = [k \in Keys |-> <<>>]]

(* The caller's multi-map after the switch: in is ranged over and       *)
(* encoded, never assigned to; q is a map of its own.                   *)
InputAfter(method, uri, in) == in

(* Request(method, uri, in, out) from its entry to Client.Do. *)
Request(a) ==
    LET b == Build(a.method, a.uri, a.in)
    IN  /\ call' = [a EXCEPT !.in = InputAfter(a.method, a.uri, a.in)]
        /\ calls' = calls + 1
        /\ open' = open
        /\ IF b.st = "ok"
           THEN /\ req' = [built |-> TRUE, method |-> a.method,
                           query |-> b.query, body |-> b.body,
                           header |-> b.header, deadline |-> Dur,
                           client |-> Transport]
                /\ pc' = "inflight"
                /\ elapsed' = 0
                /\ last' = NoLast
                /\ UNCHANGED <<out, ret, rets, expect>>
           ELSE IF b.st = "err"
           THEN /\ req' = NoReq
                /\ Return(a.method, b.err, out, NoRes, FALSE)
           ELSE /\ req' = NoReq
                /\ pc' = "panicked"
                /\ elapsed' = 0
                /\ last' = [NoLast EXCEPT !.method = a.method, !.pre = out]
                /\ UNCHANGED <<out, ret, rets, expect>>

----------------------------------------------------------------------------
(* The exported functions, called by the embedding application *)

Entry(api, method, url, in) == [api |-> api, method |-> method, url |-> url, in |-> in]

CallRequest(method, uri, in) ==
    /\ pc = "idle"
    /\ entry' = Entry("Request", method, uri, in)
    /\ Request(Args(method, uri, in))
    /\ UNCHANGED <<TimeOut, Client, inPipe, queue, invoked>>

CallGet(url, in) ==
    /\ pc = "idle"
    /\ entry' = Entry("Get", "", url, in)
    /\ Request(Get(url, in))
    /\ UNCHANGED <<TimeOut, Client, inPipe, queue, invoked>>

CallPost(url, in) ==
    /\ pc = "idle"
    /\ entry' = Entry("Post", "", url, in)
    /\ Request(Post(url, in))
    /\ UNCHANGED <<TimeOut, Client, inPipe, queue, invoked>>

CallPut(url, in) ==
    /\ pc = "idle"
    /\ entry' = Entry("Put", "", url, in)
    /\ Request(Put(url, in))
    /\ UNCHANGED <<TimeOut, Client, inPipe, queue, invoked>>

CallPatch(url, in) ==
    /\ pc = "idle"
    /\ entry' = Entry("Patch", "", url, in)
    /\ Request(Patch(url, in))
    /\ UNCHANGED <<TimeOut, Client, inPipe, queue, invoked>>

CallDelete(url) ==
    /\ pc = "idle"
    /\ entry' = Entry("Delete", "", url, NilIn)
    /\ Request(Delete(url))
    /\ UNCHANGED <<TimeOut, Client, inPipe, queue, invoked>>

(* Pipe(data, recipes...): entry, up to the head of the loop *)
CallPipe(recipes) ==
    /\ pc = "idle"
    /\ entry' = Entry("Pipe", "", BadURL, NilIn)
    /\ inPipe' = TRUE
    /\ queue' = [i \in 1..Len(recipes) |-> [pos |-> i, recipe |-> recipes[i]]]
    /\ invoked' = <<>>
    /\ rets' = <<>>
    /\ expect' = out
    /\ pc' = "loop"
    /\ UNCHANGED <<TimeOut, Client, out, call, req, elapsed, last, ret,
                   calls, open>>

(* for _, recipe := range recipes: the next recipe is invoked with data *)
PipeInvoke ==
    /\ pc = "loop"
    /\ queue # <<>>
    /\ LET r == Head(queue)
       IN  /\ queue' = Tail(queue)
           /\ invoked' = Append(invoked, r.pos)
           /\ entry' = Entry(r.recipe.ctor, "", r.recipe.url, r.recipe.in)
           /\ Request(RecipeCall(r.recipe, out))
    /\ UNCHANGED <<TimeOut, Client, inPipe>>

(* the range is exhausted: return nil *)
PipeDone ==
    /\ pc = "loop"
    /\ queue = <<>>
    /\ pc' = "returned"
    /\ ret' = NilErr
    /\ UNCHANGED <<TimeOut, Client, out, inPipe, entry, call, req, elapsed,
                   last, queue, invoked, rets, expect, calls, open>>

----------------------------------------------------------------------------
(* The transport: Client.Do and the body it hands back *)

Tick ==
    /\ pc = "inflight"
    /\ ~Expired
    /\ elapsed < MaxElapsed
    /\ elapsed' = elapsed + 1
    /\ UNCHANGED <<TimeOut, Client, out, pc, inPipe, entry, call, req, last,
                   ret, queue, invoked, rets, expect, calls, open>>

TickToDeadline ==
    /\ pc = "inflight"
    /\ ~Expired
    /\ elapsed' = req.deadline
    /\ UNCHANGED <<TimeOut, Client, out, pc, inPipe, entry, call, req, last,
                   ret, queue, invoked, rets, expect, calls, open>>

(* Client.Do returns a response before the deadline: lines 140-149 run *)
TransportRespond(res) ==
    /\ pc = "inflight"
    /\ ~Expired
    /\ LET r == AfterDo(res, out)
       IN  Return(req.method, r.err, r.out, res, TRUE)
    /\ open' = BodyAfter(open)
    /\ calls' = calls
    /\ call' = NoCall
    /\ req' = NoReq
    /\ entry' = NoEntry
    /\ UNCHANGED <<TimeOut, Client, inPipe, queue, invoked>>

(* Client.Do returns an error: connection failure *)
TransportFail ==
    /\ pc = "inflight"
    /\ ~Expired
    /\ LET r == DoFailed(Err("transport", 0), out)
       IN  Return(req.method, r.err, r.out, NoRes, TRUE)
    /\ UNCHANGED <<calls, open>>
    /\ call' = NoCall
    /\ req' = NoReq
    /\ entry' = NoEntry
    /\ UNCHANGED <<TimeOut, Client, inPipe, queue, invoked>>

(* the context's deadline passed: the transport gives up with its error *)
DeadlineExceeded ==
    /\ pc = "inflight"
    /\ Expired
    /\ LET r == DoFailed(Err("timeout", 0), out)
       IN  Return(req.method, r.err, r.out, NoRes, TRUE)
    /\ UNCHANGED <<calls, open>>
    /\ call' = NoCall
    /\ req' = NoReq
    /\ entry' = NoEntry
    /\ UNCHANGED <<TimeOut, Client, inPipe, queue, invoked>>

----------------------------------------------------------------------------
(* The embedding application *)

SetTimeOut(t) ==
    /\ pc # "panicked"
    /\ t # TimeOut
    /\ TimeOut' = t
    /\ UNCHANGED <<Client, out, pc, inPipe, entry, call, req, elapsed, last,
                   ret, queue, invoked, rets, expect, calls, open>>

SetClient(c) ==
    /\ pc # "panicked"
    /\ c # Client
    /\ Client' = c
    /\ UNCHANGED <<TimeOut, out, pc, inPipe, entry, call, req, elapsed, last,
                   ret, queue, invoked, rets, expect, calls, open>>

(* the caller has its result and goes on *)
Continue ==
    /\ pc = "returned"
    /\ pc' = "idle"
    /\ inPipe' = FALSE
    /\ entry' = NoEntry
    /\ call' = NoCall
    /\ last' = NoLast
    /\ ret' = NilErr
    /\ queue' = <<>>
    /\ invoked' = <<>>
    /\ rets' = <<>>
    /\ expect' = out
    /\ calls' = 0
    /\ open' = 0
    /\ UNCHANGED <<TimeOut, Client, out, req, elapsed>>

Next ==
    \/ \E m \in Methods, u \in URLs, i \in Inputs : CallRequest(m, u, i)
    \/ \E u \in URLs, i \in Inputs : CallGet(u, i)
    \/ \E u \in URLs, i \in Inputs : CallPost(u, i)
    \/ \E u \in URLs, i \in Inputs : CallPut(u, i)
    \/ \E u \in URLs, i \in Inputs : CallPatch(u, i)
    \/ \E u \in URLs : CallDelete(u)
    \/ \E rs \in SeqsUpTo(RecipeBook, MaxRecipes) : CallPipe(rs)
    \/ PipeInvoke
    \/ PipeDone
    \/ Tick
    \/ TickToDeadline
    \/ \E res \in Responses : TransportRespond(res)
    \/ TransportFail
    \/ DeadlineExceeded
    \/ \E t \in TimeOuts : SetTimeOut(t)
    \/ \E c \in Clients : SetClient(c)
    \/ Continue

Spec == Init /\ [][Next]_vars

----------------------------------------------------------------------------
(* Properties *)

InRange(s) == 200 <= s /\ s < 300
Named(body) == {f \in Fields : body.fields[f] # Absent}
WellTyped(body) == \A f \in Named(body) : body.fields[f] \in GoodVals
Count(seq, e) == Cardinality({i \in DOMAIN seq : seq[i] = e})
Wrappers == {"Get", "Post", "Put", "Patch", "Delete"}

(* A Request call has ended after the transport answered with a response. *)
Answered == last.done /\ last.sent /\ last.res # NoRes

(* C1, as stated: for every supported method, a response with a status in *)
(* [200,300) and a body that is a valid JSON object makes Request return  *)
(* no error, every field named in the body holds the body's value and     *)
(* every other field holds the value it had before the call.              *)
C1_AnyObjectMerges ==
    (/\ Answered
     /\ last.method \in Supported
     /\ InRange(last.res.status)
     /\ last.res.body.kind = "object")
    => /\ last.err = NilErr
       /\ \A f \in Fields :
             out[f] = IF f \in Named(last.res.body)
                      THEN last.res.body.fields[f] ELSE last.pre[f]

(* C1, amended: the same for a valid JSON object whose values have the    *)
(* types of the receptacle's fields.                                      *)
C1_MergeNotReplace ==
    (/\ Answered
     /\ last.method \in Supported
     /\ InRange(last.res.status)
     /\ last.res.body.kind = "object"
     /\ WellTyped(last.res.body))
    => /\ last.err = NilErr
       /\ \A f \in Fields :
             out[f] = IF f \in Named(last.res.body)
                      THEN last.res.body.fields[f] ELSE last.pre[f]

C1_Witness ==
    /\ Answered
    /\ last.method = "PATCH"
    /\ last.res.status = 299
    /\ last.res.body.kind = "object"
    /\ last.res.body.fields = [f \in Fields |-> IF f = "id" THEN "v" ELSE Absent]
    /\ last.pre = [f \in Fields |-> "u"]
    /\ out = [f \in Fields |-> IF f = "id" THEN "v" ELSE "u"]
    /\ last.err = NilErr

C3_OrderedFailFast ==
    inPipe =>
        /\ invoked = [i \in 1..Len(invoked) |-> i]
        /\ Len(rets) <= Len(invoked)
        /\ Len(invoked) <= Len(rets) + 1
        /\ (Len(invoked) = Len(rets) + 1) <=> (pc \in {"inflight", "panicked"})
        /\ \A i \in 1..Len(rets) : rets[i] # NilErr => i = Len(invoked)
        /\ (pc = "returned" /\ ret = NilErr) => queue = <<>>

C3_Witness ==
    /\ inPipe
    /\ pc = "returned"
    /\ invoked = <<1>>
    /\ Len(rets) = 1
    /\ rets[1].kind = "status"
    /\ Len(queue) = 1

(* C4: when Pipe returns, it returns success exactly if every recipe it   *)
(* was given was invoked and returned success; otherwise it returns the   *)
(* error of the first recipe that failed, as that recipe returned it.     *)
C4_PipeResult ==
    (inPipe /\ pc = "returned") =>
        /\ ret = NilErr <=>
              /\ queue = <<>>
              /\ Len(rets) = Len(invoked)
              /\ \A i \in 1..Len(rets) : rets[i] = NilErr
        /\ ret # NilErr =>
              \E i \in 1..Len(rets) :
                  /\ rets[i] # NilErr
                  /\ \A j \in 1..(i - 1) : rets[j] = NilErr
                  /\ ret = rets[i]
                  /\ ret = last.err

C4_Witness ==
    /\ inPipe
    /\ pc = "returned"
    /\ Len(rets) = 2
    /\ rets[1] = NilErr
    /\ ret = Err("status", 300)

(* C5, as stated: during a Pipe run, at every invocation of a recipe and  *)
(* when Pipe returns, the receptacle is the caller's initial value with   *)
(* the responses of the stages that succeeded merged onto it in order.    *)
C5_OnlySuccessfulStagesMerged == inPipe => out = expect

(* C5, amended: so it is at every invocation and when Pipe returns,       *)
(* except that a stage that failed decoding a JSON object with a value of *)
(* the wrong type has also merged the well-typed fields of its response.  *)
C5_SharedReceptacle ==
    inPipe =>
        \/ out = expect
        \/ /\ pc = "returned"
           /\ last.err.kind = "type"
           /\ ret = last.err
           /\ out = [f \in Fields |->
                        IF last.res.body.fields[f] \in GoodVals
                        THEN last.res.body.fields[f] ELSE expect[f]]

(* a hand-written recipe, invoked second, builds its input from the field *)
(* the first stage wrote *)
C5_Witness ==
    /\ inPipe
    /\ pc = "inflight"
    /\ rets = <<NilErr>>
    /\ entry.api = "closure"
    /\ out["id"] = "v"
    /\ out["name"] = "u"
    /\ call.in = FromField(out)
    /\ call.in.m["a"] = <<"y">>
    /\ out = expect

C7_BodyPlacement ==
    (call.made /\ call.method \in BodyMethods /\ call.uri.valid)
    => /\ req.built
       /\ (\E k \in Keys : call.in.m[k] # <<>>) =>
             /\ req.body = [nil |-> FALSE, pairs |-> Encode(call.in.m)]
             /\ req.header.set
             /\ req.header.clen = Itoa(EncodedLen(req.body.pairs))
             /\ req.header.ctype = "application/x-www-form-urlencoded"
       /\ call.in.nil =>
             /\ req.body.pairs = <<>>
             /\ ~req.header.set

(* the half of C7 about an input that is present *)
C7_PresentInput ==
    (call.made /\ call.method \in BodyMethods /\ call.uri.valid /\ ~call.in.nil)
    => /\ req.built
       /\ req.body = [nil |-> FALSE, pairs |-> Encode(call.in.m)]
       /\ req.header.set
       /\ req.header.clen = Itoa(EncodedLen(req.body.pairs))
       /\ req.header.ctype = "application/x-www-form-urlencoded"

(* C8: a call of Request with a method other than GET, POST, PUT, PATCH   *)
(* and DELETE returns an error, without the transport being asked and     *)
(* with the receptacle unchanged.                                         *)
C8_UnsupportedMethodRejected ==
    (call.made /\ call.method \notin Supported)
    => /\ pc # "panicked"
       /\ last.done
       /\ last.err # NilErr
       /\ ~last.sent
       /\ ~req.built
       /\ out = last.pre

(* what the code does keep of C8: the transport is not asked and the      *)
(* receptacle is unchanged *)
C8_NothingSent ==
    (call.made /\ call.method \notin Supported)
    => /\ ~last.sent
       /\ ~req.built
       /\ out = last.pre

(* C9: Get, Post, Put and Patch call Request with their method and the    *)
(* url and input they were given, Delete with DELETE, its url and no      *)
(* input; the request in flight is the one Request builds from these.     *)
WrapperMethod(api) ==
    CASE api = "Get" -> "GET"
      [] api = "Post" -> "POST"
      [] api = "Put" -> "PUT"
      [] api = "Patch" -> "PATCH"
      [] api = "Delete" -> "DELETE"

----------------------------------------------------------------------------
(* Time passes while a call waits, and a transport that honours the       *)
(* context gives up once the deadline has passed.                         *)
FairSpec ==
    /\ Init
    /\ [][Next]_vars
    /\ WF_vars(Tick \/ TickToDeadline)
    /\ WF_vars(DeadlineExceeded)

(* A Request call was entered and has not returned. *)
Pending == call.made /\ pc \in {"inflight", "panicked"}

(* C10: every Request call eventually returns, and a call whose deadline  *)
(* has passed returns the transport's timeout error.                      *)
C10_EveryCallReturns ==
    /\ Pending ~> last.done
    /\ [][(pc = "inflight" /\ Expired /\ pc' # "inflight")
            => last'.err = Err("timeout", 0)]_vars

(* what the code does keep of C10: a call that reached the transport      *)
(* returns, by the deadline at the latest *)
C10_InFlightReturns ==
    /\ (pc = "inflight") ~> last.done
    /\ [][(pc = "inflight" /\ Expired /\ pc' # "inflight")
            => last'.err = Err("timeout", 0)]_vars
    /\ [](pc = "inflight" => elapsed <= req.deadline \/ req.deadline <= 0)

----------------------------------------------------------------------------
(* C11: each Request call takes its deadline from the TimeOut and its     *)
(* transport from the Client of the moment it is made, so a change made   *)
(* between two calls governs the next call; while a call is in flight its *)
(* deadline and transport stay what they were, whatever TimeOut and       *)
(* Client become, and it times out by its own deadline only.              *)
C11_LiveConfiguration ==
    /\ [][(pc # "inflight" /\ pc' = "inflight")
            => (req'.deadline = TimeOut /\ req'.client = Client)]_vars
    /\ [][(pc = "inflight" /\ pc' = "inflight") => req' = req]_vars
    /\ [][(pc = "inflight" /\ last'.done /\ last'.err = Err("timeout", 0))
            => elapsed >= req.deadline]_vars

(* the second stage of a pipeline runs under the values set after the     *)
(* first stage, and both were changed again while it is in flight *)
C11_Witness ==
    /\ inPipe
    /\ rets = <<NilErr>>
    /\ pc = "inflight"
    /\ req.deadline = 1
    /\ req.client = "mock"
    /\ TimeOut = 0
    /\ Client = "DefaultClient"

----------------------------------------------------------------------------
(* The five recipe constructors and the method each binds. *)
Constructors ==
    {"GetRecipe", "PostRecipe", "PutRecipe", "PatchRecipe", "DeleteRecipe"}

ConstructorMethod(ctor) ==
    CASE ctor = "GetRecipe" -> "GET"
      [] ctor = "PostRecipe" -> "POST"
      [] ctor = "PutRecipe" -> "PUT"
      [] ctor = "PatchRecipe" -> "PATCH"
      [] ctor = "DeleteRecipe" -> "DELETE"

(* C12: handing constructed recipes to Pipe has made no Request call; the *)
(* Request calls of a Pipe run are as many as the recipes invoked so far, *)
(* one per invocation, and the call of a constructor's recipe has the     *)
(* constructor's method and the url and input bound at construction.      *)
C12_OneRequestPerInvocation ==
    /\ inPipe => calls = Len(invoked)
    /\ (inPipe /\ call.made /\ entry.api \in Constructors)
       => /\ call.method = ConstructorMethod(entry.api)
          /\ call.uri = entry.url
          /\ call.in = entry.in

(* the second invocation of a Pipe run is a PostRecipe's, in flight *)
C12_Witness ==
    /\ inPipe
    /\ invoked = <<1, 2>>
    /\ calls = 2
    /\ entry.api = "PostRecipe"
    /\ pc = "inflight"
    /\ call.method = "POST"
    /\ ~call.in.nil

----------------------------------------------------------------------------
(* A Request call ended at Client.Do: the transport gave no response. *)
DoError == last.done /\ last.sent /\ last.res = NoRes

(* C13: when Client.Do fails, by a transport failure or by the deadline,  *)
(* Request returns that error and the receptacle is as it was before the  *)
(* call; the step that ends the call takes the error as it is, examines   *)
(* no response and leaves the receptacle alone.                           *)
C13_TransportErrorReturned ==
    /\ [](DoError => /\ last.err \in {Err("transport", 0), Err("timeout", 0)}
                     /\ out = last.pre
                     /\ pc = "returned" => ret = last.err)
    /\ [][(pc = "inflight" /\ last'.done /\ last'.res = NoRes)
            => /\ out' = out
               /\ last'.err = IF Expired THEN Err("timeout", 0)
                               ELSE Err("transport", 0)
               /\ last'.pre = out
               /\ open' = open]_vars

(* a Post with input whose connection failed *)
C13_Witness ==
    /\ DoError
    /\ last.err = Err("transport", 0)
    /\ last.method = "POST"
    /\ pc = "returned"
    /\ ret = Err("transport", 0)

----------------------------------------------------------------------------
(* The body of the last response was read and cannot be decoded into the  *)
(* receptacle: it is not JSON, it is empty, or a value has the wrong type. *)
Unparsable ==
    /\ last.res.readOk
    /\ \/ last.res.body.kind \in {"malformed", "empty"}
       \/ ~WellTyped(last.res.body)

(* C14: a response with a status in [200,300) whose body is malformed,    *)
(* empty or of the wrong shape makes Request return the decoder's error,  *)
(* never success.                                                         *)
C14_UnparsableBodyIsError ==
    (Answered /\ InRange(last.res.status) /\ Unparsable)
    => /\ last.err \in {Err("syntax", 0), Err("type", 0)}
       /\ last.err # NilErr
       /\ pc = "returned" => ret = last.err

(* status 299 with an empty body that was read to its end *)
C14_Witness ==
    /\ Answered
    /\ pc = "returned"
    /\ last.res.status = 299
    /\ last.res.body.kind = "empty"
    /\ last.res.readOk
    /\ ret = Err("syntax", 0)

----------------------------------------------------------------------------
(* The input multi-map the caller handed over, as it was before the call. *)
GivenInput ==
    CASE entry.api \in {"Delete", "DeleteRecipe"} -> NilIn
      [] entry.api = "closure" -> FromField(out)
      [] OTHER -> entry.in

(* C15: while and after Request works on it the caller's input multi-map  *)
(* is what it was before the call; no step of a call changes TimeOut or   *)
(* Client; and the receptacle changes only in the step that decodes a     *)
(* JSON object read from a response with a status in [200,300).           *)
C15_OnlyReceptacleChanges ==
    /\ [](call.made => call.in = GivenInput)
    /\ [][(pc' # pc \/ call' # call \/ last' # last)
            => (TimeOut' = TimeOut /\ Client' = Client)]_vars
    /\ [][out' # out
            => /\ pc = "inflight"
               /\ last'.done /\ last'.sent
               /\ InRange(last'.res.status)
               /\ last'.res.readOk
               /\ last'.res.body.kind = "object"]_vars

(* the second stage of a pipeline in flight with its bound input, after   *)
(* the first stage's decode changed the receptacle, under changed settings *)
C15_Witness ==
    /\ inPipe
    /\ rets = <<NilErr>>
    /\ out["id"] = "v"
    /\ pc = "inflight"
    /\ entry.api = "GetRecipe"
    /\ call.in = OneIn("a", "x")
    /\ req.query = << <<"a", "x">> >>
    /\ TimeOut = 1
    /\ Client = "mock"

----------------------------------------------------------------------------
(* A Request call with a supported method and a URL that http.NewRequest  *)
(* rejects has been entered.                                              *)
RejectedURL == call.made /\ call.method \in Supported /\ ~call.uri.valid

(* C16, as stated: for every supported method, with or without input, a   *)
(* Request call whose URL the request constructor rejects returns the     *)
(* construction error, and neither uses the unbuilt request nor calls the *)
(* transport.                                                             *)
C16_ConstructionErrorReturned ==
    RejectedURL
    => /\ pc # "panicked"
       /\ pc # "inflight"
       /\ ~req.built
       /\ last.done
       /\ last.err = Err("url", 0)
       /\ ~last.sent

(* what the code does keep of C16: POST, PUT and PATCH, with or without   *)
(* input, return the construction error without calling the transport     *)
C16_BodyMethodsReturnError ==
    (RejectedURL /\ call.method \in BodyMethods)
    => /\ pc \in {"returned", "loop"}
       /\ ~req.built
       /\ last.done
       /\ last.err = Err("url", 0)
       /\ ~last.sent

----------------------------------------------------------------------------
(* C17, as stated: once a Request call has returned, on any path, no      *)
(* response body obtained by the calls made so far remains open.          *)
C17_BodyClosedOnReturn ==
    pc \in {"returned", "loop"} => open = 0

(* what the code does instead: a call that got a response returns with    *)
(* the body still open, whatever the path it returns by                   *)
C17_BodyLeftOpen ==
    (~inPipe /\ pc = "returned" /\ Answered) => open = 1

====
